---- MODULE Spec2Model ----
(***************************************************************************)
(* A model of rmm's allocator contract (include/rmm/mr/memory_resource.hpp) *)
(* and of the Python binding of the memory resources and of the default    *)
(* resource registry (python/rmm/_lib/memory_resource.pyx).                 *)
(*                                                                         *)
(* Independent components, each with its own specification:                *)
(*   SpecStream   stream_ordered_memory_resource::do_allocate/do_deallocate *)
(*   SpecRegistry _initialize, _set_default_resource, is_initialized, ...   *)
(*   SpecLog      LoggingResourceAdaptor.__cinit__, _initialize(logging)    *)
(*   SpecEq       memory_resource::is_equal, pmr_adaptor::do_is_equal       *)
(*   SpecBin      BinningMemoryResource.add_bin and the bin dispatch        *)
(*   SpecPool     PoolMemoryResource and the coalescing pool                *)
(*   SpecFix      FixedSizeMemoryResource and the fixed-size block pool     *)
(***************************************************************************)
EXTENDS Integers, Sequences, FiniteSets, TLC

VARIABLES
  \* ---- stream-ordered allocator ----
  pending,    \* per stream: number of operations enqueued and not yet completed
  pc,         \* position of the thread inside do_allocate / do_deallocate
  call,       \* arguments and locals of the synchronous call in progress
  tracked,    \* position in its stream's queue of the work the call must outlive
  wait,       \* what the synchronize() in progress still waits for
  trace,      \* what the last synchronous call did, in order
  outcome,    \* how the last synchronous call ended
  held,       \* blocks returned by allocate and not yet deallocated
  \* ---- binding of the memory resources and default-resource registry ----
  obj,        \* per object id: the MemoryResource object and its native resource
  natLive,    \* ids whose native resource exists (constructed, not destroyed)
  userRefs,   \* ids of the MemoryResource objects the application references
  mr_slot,    \* the module global _mr
  natDefault, \* the native registry's slot (what set_default_resource stored)
  outstanding,\* ids of the native resources with an allocation outstanding
  rpc,        \* position of the thread inside _initialize / _set_default_resource
  rcall,      \* arguments and locals of that call
  rresult,    \* how the last such call ended
  installed,  \* native resource of the last completed installation
  installs,   \* completed installations: 0, 1, or 2 for two and more
  \* ---- construction of logging adaptors ----
  env,        \* the environment variable RMM_LOG_FILE
  lastCtor,   \* the last attempt to construct a LoggingResourceAdaptor
  \* ---- equality of resources ----
  res,        \* per instance id: its class and the instance it wraps
  cmp,        \* the last comparison made and its result
  \* ---- binning dispatcher ----
  bins,       \* max_size of the bins of the native binning resource, in order
  added,      \* the allocation_size of each add_bin call that succeeded, in order
  binErr,     \* how the last add_bin call ended
  served,     \* the last allocate(bytes), who served it, and the bins added by then
  \* ---- pool suballocator ----
  pargs,      \* the arguments the pool was constructed with
  grow,       \* growth_increment
  segs,       \* the arena segments obtained from upstream
  pfree,      \* the free-block index
  pused,      \* the blocks issued to callers
  plast,      \* the last operation on the pool and how it went
  \* ---- fixed-size block pool ----
  fcall,      \* the arguments FixedSizeMemoryResource was called with
  fargs,      \* the arguments the native fixed-size pool was constructed with
  ffree,      \* the number of blocks on the free-list
  fissued,    \* the number of blocks issued to callers
  fslabs,     \* the number of slabs obtained from upstream
  fcount,     \* allocate calls since construction, while none was deallocated
  flast       \* the last operation and the upstream requests it made

streamVars == <<pending, pc, call, tracked, wait, trace, outcome, held>>

regVars == <<obj, natLive, userRefs, mr_slot, natDefault, outstanding, rpc, rcall,
             rresult, installed, installs>>

logVars == <<env, lastCtor>>

eqVars == <<res, cmp>>

binVars == <<bins, added, binErr, served>>

poolVars == <<pargs, grow, segs, pfree, pused, plast>>

fixVars == <<fcall, fargs, ffree, fissued, fslabs, fcount, flast>>

vars == <<streamVars, regVars, logVars, eqVars, binVars, poolVars, fixVars>>

\* What a step of one component leaves alone.
notStream == <<regVars, logVars, eqVars, binVars, poolVars, fixVars>>
notReg == <<streamVars, logVars, eqVars, binVars, poolVars, fixVars>>
notLog == <<streamVars, regVars, eqVars, binVars, poolVars, fixVars>>
notEq == <<streamVars, regVars, logVars, binVars, poolVars, fixVars>>
notBin == <<streamVars, regVars, logVars, eqVars, poolVars, fixVars>>
notPool == <<streamVars, regVars, logVars, eqVars, binVars, fixVars>>
notFix == <<streamVars, regVars, logVars, eqVars, binVars, poolVars>>

-----------------------------------------------------------------------------
(* Bounds *)
NumStreams == 2
MaxPending == 2
MaxPtrs == 2
MaxObjs == 3
MaxRes == 5
MaxAddr == 6
MaxSlabs == 2

-----------------------------------------------------------------------------
(* stream_ordered_memory_resource, memory_resource.hpp 246-384 *)

\* stream_view{}: the default stream
DefaultStream == 0
Streams == 0 .. (NumStreams - 1)
Ptrs == 1 .. MaxPtrs
ByteSizes == {0, 256}
\* default_alignment and one stricter alignment
Alignments == {16, 256}

NoCall == [bytes |-> 0, align |-> 0, p |-> 0, ahead |-> 0]
NoTrack == [stream |-> DefaultStream, left |-> 0]

\* The device completes the oldest operation of stream s.
Dec(t, s) == IF t.stream = s /\ t.left > 0 THEN [t EXCEPT !.left = @ - 1] ELSE t

DeviceStep(s) ==
  /\ pending[s] > 0
  /\ pending' = [pending EXCEPT ![s] = @ - 1]
  /\ tracked' = Dec(tracked, s)
  /\ wait' = Dec(wait, s)
  /\ UNCHANGED <<pc, call, trace, outcome, held>>

\* Another thread enqueues work (a kernel, a copy) on stream s.
EnqueueWork(s) ==
  /\ pending[s] < MaxPending
  /\ pending' = [pending EXCEPT ![s] = @ + 1]
  /\ UNCHANGED <<pc, call, tracked, wait, trace, outcome, held>>

\* memory_resource::allocate(bytes, alignment) calls do_allocate, line 113-116
AllocateCall(bytes, align) ==
  /\ pc = "idle"
  /\ call' = [bytes |-> bytes, align |-> align, p |-> 0, ahead |-> 0]
  /\ trace' = << >>
  /\ outcome' = "running"
  /\ pc' = "alloc_async"
  /\ UNCHANGED <<pending, tracked, wait, held>>

\* do_allocate_async(bytes, alignment, stream): pure virtual, line 378. A
\* concrete allocator enqueues the allocation on the stream and returns some
\* pointer that is not in use, or throws.
FreePtrs == Ptrs \ {b.p : b \in held}

\* auto __p = do_allocate_async(__bytes, __alignment, __default_stream), line 365
AllocAsyncOn(stream) ==
  /\ pc = "alloc_async"
  /\ \/ /\ pending[stream] < MaxPending
        /\ \E p \in FreePtrs :
             /\ call' = [call EXCEPT !.p = p, !.ahead = pending[stream]]
             /\ trace' = Append(trace, [ev |-> "allocate_async", bytes |-> call.bytes,
                                        align |-> call.align, stream |-> stream,
                                        p |-> p, behind |-> 0])
        /\ pending' = [pending EXCEPT ![stream] = @ + 1]
        /\ tracked' = [stream |-> stream, left |-> pending[stream] + 1]
        /\ pc' = "alloc_sync"
        /\ UNCHANGED <<wait, outcome, held>>
     \/ \* the exception leaves do_allocate: no synchronize, nothing returned
        /\ trace' = Append(trace, [ev |-> "allocate_async_threw", bytes |-> call.bytes,
                                   align |-> call.align, stream |-> stream,
                                   p |-> 0, behind |-> 0])
        /\ outcome' = "alloc_threw"
        /\ pc' = "idle"
        /\ UNCHANGED <<pending, call, tracked, wait, held>>

AllocAsync == AllocAsyncOn(DefaultStream)

WrongStream == NumStreams - 1

\* The stream do_allocate and do_deallocate synchronize, line 364 / 373
SyncStream == DefaultStream

\* __default_stream.synchronize() is called, line 366 / 374: it waits for
\* everything enqueued on the stream so far.
SyncCall(at, next) ==
  /\ pc = at
  /\ wait' = [stream |-> SyncStream, left |-> pending[SyncStream]]
  /\ pc' = next
  /\ UNCHANGED <<pending, call, tracked, trace, outcome, held>>

\* synchronize() returns once what it waited for has completed.
SyncReturnWhen(at, next, ready) ==
  /\ pc = at
  /\ ready
  /\ trace' = Append(trace, [ev |-> "synchronize", bytes |-> 0, align |-> 0,
                             stream |-> wait.stream, p |-> 0, behind |-> tracked.left])
  /\ pc' = next
  /\ UNCHANGED <<pending, call, tracked, wait, outcome, held>>

SyncReturnNoWait(at, next) == SyncReturnWhen(at, next, TRUE)

SyncReturn(at, next) == SyncReturnWhen(at, next, wait.left = 0)

AllocSyncCall == SyncCall("alloc_sync", "alloc_syncing")
AllocSyncReturn == SyncReturn("alloc_syncing", "alloc_return")

\* return __p, line 367
AllocReturn ==
  /\ pc = "alloc_return"
  /\ held' = held \cup {[p |-> call.p, bytes |-> call.bytes, align |-> call.align]}
  /\ outcome' = "allocated"
  /\ pc' = "idle"
  /\ UNCHANGED <<pending, call, tracked, wait, trace>>

\* memory_resource::deallocate(p, bytes, alignment) calls do_deallocate, line
\* 136-139, with a block the caller got from allocate.
DeallocateCall(b) ==
  /\ pc = "idle"
  /\ b \in held
  /\ call' = [bytes |-> b.bytes, align |-> b.align, p |-> b.p,
              ahead |-> pending[DefaultStream]]
  /\ trace' = << >>
  /\ tracked' = [stream |-> DefaultStream, left |-> pending[DefaultStream]]
  /\ outcome' = "running"
  /\ pc' = "dealloc_sync"
  /\ UNCHANGED <<pending, wait, held>>

DeallocSyncCall == SyncCall("dealloc_sync", "dealloc_syncing")
DeallocSyncReturn == SyncReturn("dealloc_syncing", "dealloc_async")

\* do_deallocate_async(__p, __bytes, __alignment, __default_stream), line 375
DeallocAsyncOn(stream) ==
  /\ pc = "dealloc_async"
  /\ pending[stream] < MaxPending
  /\ pending' = [pending EXCEPT ![stream] = @ + 1]
  /\ trace' = Append(trace, [ev |-> "deallocate_async", bytes |-> call.bytes,
                             align |-> call.align, stream |-> stream, p |-> call.p,
                             behind |-> tracked.left])
  /\ held' = held \ {[p |-> call.p, bytes |-> call.bytes, align |-> call.align]}
  /\ outcome' = "deallocated"
  /\ pc' = "idle"
  /\ UNCHANGED <<call, tracked, wait>>

DeallocAsync == DeallocAsyncOn(DefaultStream)

StreamInit ==
  /\ pending = [s \in Streams |-> 0]
  /\ pc = "idle"
  /\ call = NoCall
  /\ tracked = NoTrack
  /\ wait = NoTrack
  /\ trace = << >>
  /\ outcome = "none"
  /\ held = {}

Allocate == \E bytes \in ByteSizes, align \in Alignments : AllocateCall(bytes, align)
Deallocate == \E b \in held : DeallocateCall(b)
Device == \E s \in Streams : DeviceStep(s)
OtherThread == \E s \in Streams : EnqueueWork(s)

StreamNext ==
  \/ Allocate /\ UNCHANGED notStream
  \/ AllocAsync /\ UNCHANGED notStream
  \/ AllocSyncCall /\ UNCHANGED notStream
  \/ AllocSyncReturn /\ UNCHANGED notStream
  \/ AllocReturn /\ UNCHANGED notStream
  \/ Deallocate /\ UNCHANGED notStream
  \/ DeallocSyncCall /\ UNCHANGED notStream
  \/ DeallocSyncReturn /\ UNCHANGED notStream
  \/ DeallocAsync /\ UNCHANGED notStream
  \/ Device /\ UNCHANGED notStream
  \/ OtherThread /\ UNCHANGED notStream

-----------------------------------------------------------------------------
(* Memory resource objects of the binding, memory_resource.pyx 10-244 *)

\* Python's None (the value of a cdef object global before it is assigned)
None == 0
\* a null shared_ptr / null pointer
NULL == 0

Objs == 1 .. MaxObjs

PrimitiveKinds == {"CudaMemoryResource", "ManagedMemoryResource",
                   "CNMemMemoryResource", "CNMemManagedMemoryResource"}

\* The value of log_file_name= / of os.getenv("RMM_LOG_FILE"): "None" stands for
\* Python's None (the argument omitted, the variable unset).
LogNames == {"None", "", "a.log", "b.log"}
EnvValues == {"None", "", "env.log"}

Unused == [kind |-> "unused", up |-> NULL, dest |-> ""]

\* MemoryResource(): the base class sets no c_obj.
EmptyResource == [kind |-> "MemoryResource", up |-> NULL, dest |-> ""]

\* self.c_obj.reset(new ..._wrapper(...)), e.g. line 12-14, 25-27, 39-44, 63-68
Primitive(kind) == [kind |-> kind, up |-> NULL, dest |-> ""]

\* self.c_obj.get() of the MemoryResource object w (NULL for the base class and
\* for an object whose __cinit__ raised)
c_obj(w) == IF w = None \/ obj[w].kind \in {"unused", "MemoryResource"} THEN NULL ELSE w

\* The MemoryResource objects that are referenced: by the application, by the
\* global _mr, by the local variable mr of the call in progress.
WrapLiveOf(refs, slot, local) == (refs \cup {slot, local}) \ {None}

RECURSIVE UpChain(_, _)
UpChain(o, x) == IF x = NULL THEN {} ELSE {x} \cup UpChain(o, o[x].up)

\* Every holder of a shared_ptr to a native resource: a live MemoryResource
\* object (c_obj), an adaptor over it (upstream.c_obj, line 96, 134, 173, 224),
\* the native registry and an outstanding allocation.
Owned(o, wl, nd, out) ==
  LET roots == ({w \in wl : o[w].kind \notin {"unused", "MemoryResource"}}
                \cup {nd} \cup out) \ {NULL}
  IN UNION {UpChain(o, r) : r \in roots}

\* c_obj is the only owner: the native resource dies with its MemoryResource object.
NatAfterExclusive(o, live, wl, nd, out) ==
  live \cap {w \in wl : o[w].kind \notin {"unused", "MemoryResource"}}

\* shared_ptr: a native resource is destroyed when its last owner lets go
\* (cdef shared_ptr c_obj; line 6, 12)
NatAfter(o, live, wl, nd, out) == live \cap Owned(o, wl, nd, out)

\* The state after a step that created the objects of o and left the
\* references refs, slot, local, nd and out.
Commit(o, created, refs, slot, local, nd, out) ==
  LET wl == WrapLiveOf(refs, slot, local)
      live == NatAfter(o, natLive \cup created, wl, nd, out)
      used == wl \cup live \cup {nd} \cup out \cup {o[x].up : x \in live}
  IN /\ natLive' = live
     /\ obj' = [x \in Objs |-> IF x \in used THEN o[x] ELSE Unused]
     /\ userRefs' = refs
     /\ mr_slot' = slot
     /\ natDefault' = nd
     /\ outstanding' = out

InUse == WrapLiveOf(userRefs, mr_slot, rcall.mr) \cup natLive \cup {natDefault}
         \cup outstanding \cup {obj[x].up : x \in natLive}
FreeIds == Objs \ InUse
Fresh(free) == CHOOSE x \in free : \A y \in free : x <= y

NoRCall == [op |-> "none", pool |-> FALSE, managed |-> FALSE, logging |-> FALSE,
            lfn |-> "None", mr |-> None]
NoCtor == [path |-> "none", typ |-> "", logging |-> FALSE, explicit |-> "None",
           environ |-> "None", result |-> "none", dest |-> ""]

\* LoggingResourceAdaptor.__cinit__(upstream, log_file_name), line 213-227:
\* the destination it logs to, or "TypeError".
LoggingCinit(log_file_name, environ) ==
  IF log_file_name = "None"
  THEN IF environ \in {"None", ""} THEN "TypeError" ELSE environ
  ELSE log_file_name

\* The application constructs a primitive resource and keeps it.
UserConstruct(kind) ==
  /\ FreeIds # {}
  /\ LET n == Fresh(FreeIds)
     IN Commit([obj EXCEPT ![n] = Primitive(kind)], {n}, userRefs \cup {n},
               mr_slot, rcall.mr, natDefault, outstanding)
  /\ UNCHANGED <<rpc, rcall, rresult, installed, installs>>

\* The application lets go of a MemoryResource object.
UserDrop(w) ==
  /\ w \in userRefs
  /\ Commit(obj, {}, userRefs \ {w}, mr_slot, rcall.mr, natDefault, outstanding)
  /\ UNCHANGED <<rpc, rcall, rresult, installed, installs>>

\* An allocation is made through a resource the application holds or through
\* the current default, and is returned later.
AllocateThrough(x) ==
  /\ x \in natLive
  /\ x \in {c_obj(w) : w \in userRefs} \cup {natDefault}
  /\ x \notin outstanding
  /\ Commit(obj, {}, userRefs, mr_slot, rcall.mr, natDefault, outstanding \cup {x})
  /\ UNCHANGED <<rpc, rcall, rresult, installed, installs>>

DeallocateThrough(x) ==
  /\ x \in outstanding
  /\ x \in natLive
  /\ Commit(obj, {}, userRefs, mr_slot, rcall.mr, natDefault, outstanding \ {x})
  /\ UNCHANGED <<rpc, rcall, rresult, installed, installs>>

-----------------------------------------------------------------------------
(* The default-resource registry, memory_resource.pyx 247-323 *)

\* _initialize(pool_allocator, managed_memory, ..., logging, log_file_name) is called
InitializeCall(pool, managed, logging, lfn) ==
  /\ rpc = "idle"
  /\ rcall' = [op |-> "initialize", pool |-> pool, managed |-> managed,
               logging |-> logging, lfn |-> lfn, mr |-> None]
  /\ rpc' = "init263"
  /\ rresult' = "running"
  /\ UNCHANGED <<obj, natLive, userRefs, mr_slot, natDefault, outstanding,
                 installed, installs>>

\* _mr = MemoryResource(), line 263
Initialize263 ==
  /\ rpc = "init263"
  /\ FreeIds # {}
  /\ LET n == Fresh(FreeIds)
     IN Commit([obj EXCEPT ![n] = EmptyResource], {}, userRefs, n, rcall.mr,
               natDefault, outstanding)
  /\ rpc' = "init265"
  /\ UNCHANGED <<rcall, rresult, installed, installs>>

\* line 265-275
Typ(pool, managed) ==
  IF ~pool
  THEN IF ~managed THEN "CudaMemoryResource" ELSE "ManagedMemoryResource"
  ELSE IF ~managed THEN "CNMemMemoryResource" ELSE "CNMemManagedMemoryResource"

\* line 287-292: mr = LoggingResourceAdaptor(typ(*args), log_file_name.encode())
\* or mr = typ(*args). What it builds, or the exception it raises after
\* typ(*args) was built: None has no encode().
InitializeBuild(pool, managed, logging, log_file_name, environ) ==
  IF ~logging
  THEN [result |-> "ok", typ |-> Typ(pool, managed), logging |-> FALSE, dest |-> ""]
  ELSE IF log_file_name = "None"
  THEN [result |-> "AttributeError", typ |-> Typ(pool, managed), logging |-> FALSE,
        dest |-> ""]
  ELSE [result |-> LET d == LoggingCinit(log_file_name, environ)
                   IN IF d = "TypeError" THEN d ELSE "ok",
        typ |-> Typ(pool, managed), logging |-> TRUE,
        dest |-> LoggingCinit(log_file_name, environ)]

\* line 265-292, and on success the call of _set_default_resource(mr), line 294
Initialize289 ==
  /\ rpc = "init265"
  /\ LET b == InitializeBuild(rcall.pool, rcall.managed, rcall.logging, rcall.lfn, env)
     IN /\ Cardinality(FreeIds) >= (IF b.logging THEN 2 ELSE 1)
        /\ LET t == Fresh(FreeIds)
               l == Fresh(FreeIds \ {t})
               withT == [obj EXCEPT ![t] = Primitive(b.typ)]
           IN IF b.result # "ok"
              THEN /\ Commit(withT, {t}, userRefs, mr_slot, None, natDefault, outstanding)
                   /\ rcall' = NoRCall
                   /\ rpc' = "idle"
                   /\ rresult' = b.result
              ELSE IF ~b.logging
              THEN /\ Commit(withT, {t}, userRefs, mr_slot, t, natDefault, outstanding)
                   /\ rcall' = [rcall EXCEPT !.mr = t]
                   /\ rpc' = "set310"
                   /\ UNCHANGED rresult
              ELSE /\ Commit([withT EXCEPT ![l] = [kind |-> "LoggingResourceAdaptor",
                                                   up |-> t, dest |-> b.dest]],
                             {t, l}, userRefs, mr_slot, l, natDefault, outstanding)
                   /\ rcall' = [rcall EXCEPT !.mr = l]
                   /\ rpc' = "set310"
                   /\ UNCHANGED rresult
  /\ UNCHANGED <<installed, installs>>

\* The application calls _set_default_resource(mr) with a resource it holds.
SetDefaultCall(w) ==
  /\ rpc = "idle"
  /\ w \in userRefs
  /\ c_obj(w) # NULL
  /\ rcall' = [NoRCall EXCEPT !.op = "set", !.mr = w]
  /\ rpc' = "set310"
  /\ rresult' = "running"
  /\ UNCHANGED <<obj, natLive, userRefs, mr_slot, natDefault, outstanding,
                 installed, installs>>

\* The binding slot keeps the first allocator it was given.
RebindOnce(old, new) == IF c_obj(old) # NULL THEN old ELSE new

\* global _mr; _mr = mr, line 309-310
Rebind(old, new) == new

SetDefault310 ==
  /\ rpc = "set310"
  /\ Commit(obj, {}, userRefs, Rebind(mr_slot, rcall.mr), rcall.mr, natDefault,
            outstanding)
  /\ rpc' = "set311"
  /\ UNCHANGED <<rcall, rresult, installed, installs>>

\* set_default_resource(_mr.c_obj), line 311, and the return to the caller
SetDefault311 ==
  /\ rpc = "set311"
  /\ Commit(obj, {}, userRefs, mr_slot, None, c_obj(mr_slot), outstanding)
  /\ installed' = c_obj(rcall.mr)
  /\ installs' = IF installs = 0 THEN 1 ELSE 2
  /\ rcall' = NoRCall
  /\ rpc' = "idle"
  /\ rresult' = "ok"

\* get_default_resource_type(): type(_mr), line 314-318
get_default_resource_type ==
  IF mr_slot = None THEN "NoneType" ELSE obj[mr_slot].kind

\* is_initialized(): _mr.c_obj.get() is not NULL, line 321-323. While _mr is
\* still None the read of c_obj is a read past the None object: any outcome.
is_initialized ==
  IF mr_slot = None THEN {"True", "False", "crash"}
  ELSE {IF c_obj(mr_slot) # NULL THEN "True" ELSE "False"}

\* The native get_default_resource(): the allocator the native slot designates.
get_default == natDefault

RegInit ==
  /\ obj = [x \in Objs |-> Unused]
  /\ natLive = {}
  /\ userRefs = {}
  /\ mr_slot = None
  /\ natDefault = NULL
  /\ outstanding = {}
  /\ rpc = "idle"
  /\ rcall = NoRCall
  /\ rresult = "none"
  /\ installed = NULL
  /\ installs = 0

Construct == \E kind \in {"CudaMemoryResource"} : UserConstruct(kind)
Drop == \E w \in userRefs : UserDrop(w)
AllocateSome == \E x \in natLive : AllocateThrough(x)
DeallocateSome == \E x \in outstanding : DeallocateThrough(x)
Initialize ==
  \E pool \in BOOLEAN, managed \in {FALSE},
     how \in {<<FALSE, "None">>, <<TRUE, "None">>, <<TRUE, "a.log">>} :
    InitializeCall(pool, managed, how[1], how[2])
SetDefault == \E w \in userRefs : SetDefaultCall(w)

RegNext ==
  \/ Construct /\ UNCHANGED notReg
  \/ Drop /\ UNCHANGED notReg
  \/ AllocateSome /\ UNCHANGED notReg
  \/ DeallocateSome /\ UNCHANGED notReg
  \/ Initialize /\ UNCHANGED notReg
  \/ Initialize263 /\ UNCHANGED notReg
  \/ Initialize289 /\ UNCHANGED notReg
  \/ SetDefault /\ UNCHANGED notReg
  \/ SetDefault310 /\ UNCHANGED notReg
  \/ SetDefault311 /\ UNCHANGED notReg

-----------------------------------------------------------------------------
(* Construction of logging adaptors, memory_resource.pyx 212-227, 287-292 *)

\* The environment variable RMM_LOG_FILE is set or unset.
SetEnv(v) ==
  /\ env' = v
  /\ UNCHANGED lastCtor

\* LoggingResourceAdaptor(upstream, log_file_name) is constructed directly.
ConstructDirect(lfn) ==
  /\ lastCtor' = LET d == LoggingCinit(lfn, env)
                 IN [path |-> "direct", typ |-> "", logging |-> TRUE, explicit |-> lfn,
                     environ |-> env,
                     result |-> IF d = "TypeError" THEN d ELSE "ok",
                     dest |-> IF d = "TypeError" THEN "" ELSE d]
  /\ UNCHANGED env

\* _initialize(pool_allocator, managed_memory, logging, log_file_name) builds its
\* allocator.
ConstructByInitialize(pool, managed, logging, lfn) ==
  /\ lastCtor' = LET b == InitializeBuild(pool, managed, logging, lfn, env)
                 IN [path |-> "initialize", typ |-> b.typ, logging |-> logging,
                     explicit |-> lfn, environ |-> env, result |-> b.result,
                     dest |-> b.dest]
  /\ UNCHANGED env

LogInit ==
  /\ env \in EnvValues
  /\ lastCtor = NoCtor

ChangeEnv == \E v \in EnvValues : SetEnv(v)
LoggingDirect == \E lfn \in LogNames : ConstructDirect(lfn)
LoggingByInitialize ==
  \E pool, managed, logging \in BOOLEAN, lfn \in LogNames :
    ConstructByInitialize(pool, managed, logging, lfn)

LogNext ==
  \/ ChangeEnv /\ UNCHANGED notLog
  \/ LoggingDirect /\ UNCHANGED notLog
  \/ LoggingByInitialize /\ UNCHANGED notLog

-----------------------------------------------------------------------------
(* Equality of resources, memory_resource.hpp 141-162 and 178-223 *)

Res == 1 .. MaxRes

\* "resource": a memory_resource that does not override do_is_equal;
\* "logging": a logging adaptor over an upstream resource;
\* "pmr_adaptor": a pmr_adaptor over a pointer to a resource;
\* "pmr_other": a std::pmr::memory_resource that is no pmr_adaptor.
NoRes == [cls |-> "none", wraps |-> NULL]
NoCmp == [op |-> "none", a |-> NULL, b |-> NULL, result |-> FALSE]

\* every stateless resource compares equal
do_is_equal_any(a, b) == TRUE

\* return this == &__other, line 160-162
do_is_equal(a, b) == a = b

\* The logging adaptor forwards equality to the allocator it wraps: it equals
\* another logging adaptor whose upstream equals its own.
RECURSIVE is_equal(_, _, _)
logging_do_is_equal(r, a, b) ==
  r[b].cls = "logging" /\ is_equal(r, r[a].wraps, r[b].wraps)

\* is_equal(__other) calls the virtual do_is_equal, line 149-151
is_equal(r, a, b) ==
  IF r[a].cls = "logging" THEN logging_do_is_equal(r, a, b) ELSE do_is_equal(a, b)

\* dynamic_cast<detail::__pmr_adaptor_base const *>(&__other), line 217
pmr_adaptor_cast(r, b) == IF r[b].cls = "pmr_adaptor" THEN b ELSE NULL

\* resource(): &*__mr_, line 204
resource(r, a) == r[a].wraps

\* equal only when both wrap the same instance
pmr_do_is_equal_same(r, a, b) ==
  LET other_p == pmr_adaptor_cast(r, b)
  IN other_p # NULL /\ resource(r, other_p) = resource(r, a)

\* pmr_adaptor::do_is_equal, line 216-220
pmr_do_is_equal(r, a, b) ==
  LET other_p == pmr_adaptor_cast(r, b)
  IN other_p # NULL /\ (resource(r, other_p) = resource(r, a)
                        \/ is_equal(r, resource(r, other_p), resource(r, a)))

FreeRes == {x \in Res : res[x].cls = "none"}
Resources == {x \in Res : res[x].cls \in {"resource", "logging"}}
PmrResources == {x \in Res : res[x].cls \in {"pmr_adaptor", "pmr_other"}}

\* A resource, or a std::pmr resource that is no adaptor, is constructed.
NewResource(cls) ==
  /\ FreeRes # {}
  /\ res' = [res EXCEPT ![Fresh(FreeRes)] = [cls |-> cls, wraps |-> NULL]]
  /\ UNCHANGED cmp

\* A logging adaptor or a pmr_adaptor (line 200) is constructed over u.
NewAdaptor(cls, u) ==
  /\ FreeRes # {}
  /\ u \in Resources
  /\ res' = [res EXCEPT ![Fresh(FreeRes)] = [cls |-> cls, wraps |-> u]]
  /\ UNCHANGED cmp

\* a.is_equal(b) on two resources
CompareResources(a, b) ==
  /\ a \in Resources
  /\ b \in Resources
  /\ cmp' = [op |-> "is_equal", a |-> a, b |-> b, result |-> is_equal(res, a, b)]
  /\ UNCHANGED res

\* the do_is_equal of the pmr_adaptor a, with any std::pmr resource b
ComparePmr(a, b) ==
  /\ a \in PmrResources
  /\ res[a].cls = "pmr_adaptor"
  /\ b \in PmrResources
  /\ cmp' = [op |-> "pmr_do_is_equal", a |-> a, b |-> b,
             result |-> pmr_do_is_equal(res, a, b)]
  /\ UNCHANGED res

EqInit ==
  /\ res = [x \in Res |-> NoRes]
  /\ cmp = NoCmp

ConstructResource == \E cls \in {"resource", "pmr_other"} : NewResource(cls)
ConstructAdaptor == \E cls \in {"logging", "pmr_adaptor"}, u \in Res : NewAdaptor(cls, u)
IsEqual == \E a, b \in Res : CompareResources(a, b)
PmrIsEqual == \E a, b \in Res : ComparePmr(a, b)

EqNext ==
  \/ ConstructResource /\ UNCHANGED notEq
  \/ ConstructAdaptor /\ UNCHANGED notEq
  \/ IsEqual /\ UNCHANGED notEq
  \/ PmrIsEqual /\ UNCHANGED notEq

-----------------------------------------------------------------------------
(* The binning dispatcher, memory_resource.pyx 166-209 *)

BinSizes == {64, 256, 4096, 1048576}
Requests == {0, 64, 200, 256, 257, 4096, 5000, 1048576, 2097152}

NotServed == [bytes |-> 0, by |-> "none", max_size |-> 0, among |-> << >>]

\* The native add_bin: bins are appended in increasing max_size order; a bin
\* that is not larger than the last one is a configuration error.
native_add_bin(b, max_size) ==
  IF b = << >> \/ b[Len(b)] < max_size
  THEN [bins |-> Append(b, max_size), result |-> "ok"]
  ELSE [bins |-> b, result |-> "configuration_error"]

\* The native allocate: a linear scan of the bins in order for the first
\* whose max_size >= bytes; the upstream allocator when none qualifies.
RECURSIVE scan_bins(_, _, _)
scan_bins(b, i, bytes) ==
  IF i > Len(b) THEN [by |-> "upstream", max_size |-> 0]
  ELSE IF b[i] >= bytes THEN [by |-> "bin", max_size |-> b[i]]
  ELSE scan_bins(b, i + 1, bytes)

\* the binding hands the native add_bin one less than it was given
add_bin_arg_short(allocation_size) == allocation_size - 1

\* BinningMemoryResource.add_bin(allocation_size) hands allocation_size to the
\* native add_bin, line 193-209
add_bin_arg(allocation_size) == allocation_size

add_bin(allocation_size) ==
  LET r == native_add_bin(bins, add_bin_arg(allocation_size))
  IN /\ bins' = r.bins
     /\ binErr' = r.result
     /\ added' = IF r.result = "ok" THEN Append(added, allocation_size) ELSE added
     /\ UNCHANGED served

BinAllocate(bytes) ==
  /\ LET r == scan_bins(bins, 1, bytes)
     IN served' = [bytes |-> bytes, by |-> r.by, max_size |-> r.max_size,
                   among |-> added]
  /\ UNCHANGED <<bins, added, binErr>>

BinInit ==
  /\ bins = << >>
  /\ added = << >>
  /\ binErr = "none"
  /\ served = NotServed

AddBin == \E size \in BinSizes : add_bin(size)
AllocateBytes == \E bytes \in Requests : BinAllocate(bytes)

BinNext ==
  \/ AddBin /\ UNCHANGED notBin
  \/ AllocateBytes /\ UNCHANGED notBin

-----------------------------------------------------------------------------
(* The pool suballocator, memory_resource.pyx 86-122 *)

\* Addresses and sizes are counted in units of the allocation granularity.
Addrs == 0 .. (MaxAddr - 1)
PoolSizes == {1, 2, 4}
PoolRequests == {1, 2, 3}
Granularity == 1

NoPool == [built |-> FALSE, initial_pool_size |-> 0, maximum_pool_size |-> 0]
NoPoolOp == [op |-> "none", result |-> "none", merged |-> 0]

\* new pool_memory_resource_wrapper(upstream.c_obj, initial_pool_size,
\* maximum_pool_size), line 95-101
pool_args(initial_pool_size, maximum_pool_size) ==
  [built |-> TRUE, initial_pool_size |-> initial_pool_size,
   maximum_pool_size |-> maximum_pool_size]

\* PoolMemoryResource.__cinit__, line 89-101
PoolCinit(initial_pool_size, maximum_pool_size) ==
  /\ ~pargs.built
  /\ pargs' = pool_args(initial_pool_size, maximum_pool_size)
  /\ grow' = pargs'.initial_pool_size
  /\ plast' = [op |-> "construct", result |-> "ok", merged |-> 0]
  /\ UNCHANGED <<segs, pfree, pused>>

BlockEnd(b) == b.addr + b.size
Overlap(a, b) == a.addr < BlockEnd(b) /\ b.addr < BlockEnd(a)

\* The arena segment a block lies in.
SegOf(sg, b) == CHOOSE g \in sg : g.addr <= b.addr /\ BlockEnd(b) <= BlockEnd(g)

\* Step 1: the smallest free block whose size >= bytes, the lowest address
\* among equals.
Fits(fr, bytes) == {b \in fr : b.size >= bytes}
BestFit(fr, bytes) ==
  CHOOSE b \in Fits(fr, bytes) :
    \A c \in Fits(fr, bytes) : b.size < c.size \/ (b.size = c.size /\ b.addr <= c.addr)

\* Step 2: a block larger than needed by more than the granularity is split;
\* the low part is issued, the remainder stays free at the higher address.
Issue(fr, us, bytes) ==
  LET b == BestFit(fr, bytes)
  IN IF b.size - bytes > Granularity
     THEN [free |-> (fr \ {b}) \cup {[addr |-> b.addr + bytes, size |-> b.size - bytes]},
           used |-> us \cup {[addr |-> b.addr, size |-> bytes]}]
     ELSE [free |-> fr \ {b}, used |-> us \cup {b}]

\* Step 3: the regions upstream can hand out for a new segment of the given
\* size: any region that overlaps no segment the pool owns.
UpstreamRegions(sg, size) ==
  {g \in [addr : Addrs, size : {size}] :
     /\ BlockEnd(g) <= MaxAddr
     /\ \A h \in sg : ~Overlap(g, h)}

Max(a, b) == IF a >= b THEN a ELSE b
Min(a, b) == IF a <= b THEN a ELSE b

\* allocate(bytes) on the pool
PoolAllocate(bytes) ==
  /\ pargs.built
  /\ IF Fits(pfree, bytes) # {}
     THEN LET r == Issue(pfree, pused, bytes)
          IN /\ pfree' = r.free
             /\ pused' = r.used
             /\ plast' = [op |-> "allocate", result |-> "ok", merged |-> 0]
             /\ UNCHANGED <<segs, grow>>
     ELSE LET size == Max(bytes, grow)
          IN IF UpstreamRegions(segs, size) = {}
             THEN /\ plast' = [op |-> "allocate", result |-> "OutOfMemory", merged |-> 0]
                  /\ UNCHANGED <<segs, grow, pfree, pused>>
             ELSE \E g \in UpstreamRegions(segs, size) :
                    LET r == Issue(pfree \cup {g}, pused, bytes)
                    IN /\ segs' = segs \cup {g}
                       /\ grow' = Min(2 * grow, pargs.maximum_pool_size)
                       /\ pfree' = r.free
                       /\ pused' = r.used
                       /\ plast' = [op |-> "allocate", result |-> "grown", merged |-> 0]
  /\ UNCHANGED pargs

\* The free neighbours of block b inside its segment.
LowerFree(sg, fr, b) ==
  {a \in fr : BlockEnd(a) = b.addr /\ SegOf(sg, a) = SegOf(sg, b)}
UpperFree(sg, fr, b) ==
  {c \in fr : BlockEnd(b) = c.addr /\ SegOf(sg, c) = SegOf(sg, b)}

\* only the lower neighbour is merged
CoalesceLower(sg, fr, b) ==
  LET lo == LowerFree(sg, fr, b)
      start == IF lo = {} THEN b.addr ELSE (CHOOSE a \in lo : TRUE).addr
  IN (fr \ lo) \cup {[addr |-> start, size |-> BlockEnd(b) - start]}

\* On deallocation: mark the block free and merge it with each address-adjacent
\* neighbour that is free, producing one merged free block.
Coalesce(sg, fr, b) ==
  LET lo == LowerFree(sg, fr, b)
      hi == UpperFree(sg, fr, b)
      start == IF lo = {} THEN b.addr ELSE (CHOOSE a \in lo : TRUE).addr
      end == IF hi = {} THEN BlockEnd(b) ELSE BlockEnd(CHOOSE c \in hi : TRUE)
  IN (fr \ (lo \cup hi)) \cup {[addr |-> start, size |-> end - start]}

\* deallocate(p, bytes) of a block the pool issued
PoolDeallocate(b) ==
  /\ b \in pused
  /\ pfree' = Coalesce(segs, pfree, b)
  /\ pused' = pused \ {b}
  /\ plast' = [op |-> "deallocate", result |-> "ok",
               merged |-> Cardinality(LowerFree(segs, pfree, b))
                          + Cardinality(UpperFree(segs, pfree, b))]
  /\ UNCHANGED <<pargs, grow, segs>>

PoolInit ==
  /\ pargs = NoPool
  /\ grow = 0
  /\ segs = {}
  /\ pfree = {}
  /\ pused = {}
  /\ plast = NoPoolOp

PoolConstruct ==
  \E initial_pool_size \in PoolSizes, maximum_pool_size \in PoolSizes :
    /\ initial_pool_size <= maximum_pool_size
    /\ PoolCinit(initial_pool_size, maximum_pool_size)
PoolAllocateSome == \E bytes \in PoolRequests : PoolAllocate(bytes)
PoolDeallocateSome == \E b \in pused : PoolDeallocate(b)

PoolNext ==
  \/ PoolConstruct /\ UNCHANGED notPool
  \/ PoolAllocateSome /\ UNCHANGED notPool
  \/ PoolDeallocateSome /\ UNCHANGED notPool

-----------------------------------------------------------------------------
(* The fixed-size block pool, memory_resource.pyx 125-163 *)

\* size_t block_size=1<<20, line 129
DefaultBlockSize == 1048576
\* size_t blocks_to_preallocate=128, line 130
DefaultBlocksToPreallocate == 128

BlockSizes == {256, DefaultBlockSize}
PreallocateCounts == {1, 2, 3, DefaultBlocksToPreallocate}
FixRequests == {1, 256, DefaultBlockSize}

NoFixArgs == [built |-> FALSE, block_size |-> 0, blocks_to_preallocate |-> 0]
NoFixOp == [op |-> "none", result |-> "none", upstream |-> 0, requested |-> 0]

\* the two sizes handed over in the wrong order
fixed_args_swapped(block_size, blocks_to_preallocate) ==
  [built |-> TRUE, block_size |-> blocks_to_preallocate,
   blocks_to_preallocate |-> block_size]

\* new fixed_size_memory_resource_wrapper(upstream.c_obj, block_size,
\* blocks_to_preallocate), line 132-138
fixed_args(block_size, blocks_to_preallocate) ==
  [built |-> TRUE, block_size |-> block_size,
   blocks_to_preallocate |-> blocks_to_preallocate]

\* FixedSizeMemoryResource.__cinit__, line 126-138; the native pool
\* preallocates blocks_to_preallocate blocks from upstream at construction.
FixedCinit(block_size, blocks_to_preallocate) ==
  /\ ~fargs.built
  /\ fcall' = [built |-> TRUE, block_size |-> block_size,
               blocks_to_preallocate |-> blocks_to_preallocate]
  /\ fargs' = fixed_args(block_size, blocks_to_preallocate)
  /\ ffree' = fargs'.blocks_to_preallocate
  /\ fissued' = 0
  /\ fslabs' = 1
  /\ fcount' = 0
  /\ flast' = [op |-> "construct", result |-> "ok", upstream |-> 1,
               requested |-> fargs'.blocks_to_preallocate]

\* How many allocate calls are counted: enough to see the slab after the
\* preallocated one being used up.
CountCap == 2 * DefaultBlocksToPreallocate + 2
Counted(n) == IF n < 0 \/ n >= CountCap THEN n ELSE n + 1

\* allocate(bytes), bytes <= block_size: pop a free block; with the free-list
\* empty, request one more slab of blocks_to_preallocate blocks from upstream,
\* which grants it or fails.
FixedAllocate(bytes) ==
  /\ fargs.built
  /\ bytes <= fcall.block_size
  /\ bytes <= fargs.block_size
  /\ IF ffree > 0
     THEN /\ ffree' = ffree - 1
          /\ fissued' = fissued + 1
          /\ fcount' = Counted(fcount)
          /\ flast' = [op |-> "allocate", result |-> "ok", upstream |-> 0,
                       requested |-> 0]
          /\ UNCHANGED fslabs
     ELSE \/ /\ fslabs < MaxSlabs
             /\ fslabs' = fslabs + 1
             /\ ffree' = fargs.blocks_to_preallocate - 1
             /\ fissued' = fissued + 1
             /\ fcount' = Counted(fcount)
             /\ flast' = [op |-> "allocate", result |-> "ok", upstream |-> 1,
                          requested |-> fargs.blocks_to_preallocate]
          \/ /\ fcount' = Counted(fcount)
             /\ flast' = [op |-> "allocate", result |-> "OutOfMemory", upstream |-> 1,
                          requested |-> fargs.blocks_to_preallocate]
             /\ UNCHANGED <<ffree, fissued, fslabs>>
  /\ UNCHANGED <<fcall, fargs>>

\* deallocate(p, bytes): push the block back onto the free-list
FixedDeallocate ==
  /\ fissued > 0
  /\ fissued' = fissued - 1
  /\ ffree' = ffree + 1
  /\ fcount' = -1
  /\ flast' = [op |-> "deallocate", result |-> "ok", upstream |-> 0, requested |-> 0]
  /\ UNCHANGED <<fcall, fargs, fslabs>>

FixInit ==
  /\ fcall = NoFixArgs
  /\ fargs = NoFixArgs
  /\ ffree = 0
  /\ fissued = 0
  /\ fslabs = 0
  /\ fcount = 0
  /\ flast = NoFixOp

FixedConstruct ==
  \E block_size \in BlockSizes, blocks_to_preallocate \in PreallocateCounts :
    FixedCinit(block_size, blocks_to_preallocate)
FixedAllocateSome == \E bytes \in FixRequests : FixedAllocate(bytes)

FixNext ==
  \/ FixedConstruct /\ UNCHANGED notFix
  \/ FixedAllocateSome /\ UNCHANGED notFix
  \/ FixedDeallocate /\ UNCHANGED notFix

-----------------------------------------------------------------------------
(* Specifications: one component runs, the others stay as constructed. *)

Idle ==
  /\ StreamInit
  /\ RegInit
  /\ LogInit
  /\ EqInit
  /\ BinInit
  /\ PoolInit
  /\ FixInit

InitStream == Idle /\ env = "None"
InitRegistry == Idle /\ env = "None"
InitLog == Idle
InitEq == Idle /\ env = "None"
InitBin == Idle /\ env = "None"
InitPool == Idle /\ env = "None"
InitFix == Idle /\ env = "None"

SpecStream == InitStream /\ [][StreamNext]_vars

SpecRegistry == InitRegistry /\ [][RegNext]_vars

SpecLog == InitLog /\ [][LogNext]_vars

SpecEq == InitEq /\ [][EqNext]_vars

SpecBin == InitBin /\ [][BinNext]_vars

SpecPool == InitPool /\ [][PoolNext]_vars

SpecFix == InitFix /\ [][FixNext]_vars

-----------------------------------------------------------------------------
(* Claims about the stream-ordered allocator *)

\* C1: a synchronous allocate(bytes, alignment) that returns a pointer has made
\* exactly one do_allocate_async(bytes, alignment, default stream), has then
\* synchronized the default stream with that allocation no longer pending on
\* it, and returns the pointer the asynchronous allocation produced.
C1_AllocateSyncsBeforeReturn ==
  outcome = "allocated" =>
    /\ Len(trace) = 2
    /\ trace[1] = [ev |-> "allocate_async", bytes |-> call.bytes, align |-> call.align,
                   stream |-> DefaultStream, p |-> trace[1].p, behind |-> 0]
    /\ trace[2].ev = "synchronize"
    /\ trace[2].stream = DefaultStream
    /\ trace[2].behind = 0
    /\ [p |-> trace[1].p, bytes |-> call.bytes, align |-> call.align] \in held

\* An allocation enqueued behind other work of the default stream has returned.
C1_Witness ==
  /\ outcome = "allocated"
  /\ call.ahead > 0
  /\ Len(trace) = 2

\* C2: a synchronous deallocate(p, bytes, alignment) synchronizes the default
\* stream first and only then issues exactly one do_deallocate_async(p, bytes,
\* alignment, default stream), at a moment when none of the work enqueued on
\* the default stream before the call is still pending.
C2_DeallocateSyncsFirst ==
  outcome = "deallocated" =>
    /\ Len(trace) = 2
    /\ trace[1].ev = "synchronize"
    /\ trace[1].stream = DefaultStream
    /\ trace[2] = [ev |-> "deallocate_async", bytes |-> call.bytes, align |-> call.align,
                   stream |-> DefaultStream, p |-> call.p, behind |-> 0]
    /\ [p |-> call.p, bytes |-> call.bytes, align |-> call.align] \notin held

\* A deallocate called with work pending on the default stream has completed.
C2_Witness ==
  /\ outcome = "deallocated"
  /\ call.ahead > 0
  /\ Len(trace) = 2

-----------------------------------------------------------------------------
(* Claims about the default-resource registry *)

\* C3: whenever the last call on the registry was an installation that
\* completed, the registry reports the allocator that call installed: the
\* binding slot _mr holds it, the native get_default() designates it and
\* get_default_resource_type() returns its type.
C3_LastInstalledWins ==
  (rpc = "idle" /\ rresult = "ok") =>
    /\ installed # NULL
    /\ c_obj(mr_slot) = installed
    /\ get_default = installed
    /\ get_default_resource_type = obj[installed].kind

\* A second installation has completed while the application still holds an
\* allocator of another type than the one now installed.
C3_Witness ==
  /\ rpc = "idle"
  /\ rresult = "ok"
  /\ installs = 2
  /\ \E w \in userRefs : c_obj(w) \notin {NULL, installed}
                         /\ obj[w].kind # get_default_resource_type

\* C4: once an allocator is installed, an observer (get_default_resource_type,
\* is_initialized, the native get_default) sees at every moment, also in the
\* middle of a later installation, either the allocator installed before or the
\* one being installed, never an empty or intermediate one.
C4_AtomicInstall ==
  installed # NULL =>
    /\ c_obj(mr_slot) \in {installed, c_obj(rcall.mr)} \ {NULL}
    /\ get_default \in {installed, c_obj(rcall.mr)} \ {NULL}

\* C5: is_initialized() returns False before any installation (where the slot
\* has been assigned at all: the read of the never assigned slot is undefined),
\* and returns True in every state after the first installation, during and
\* after every later replacement or re-initialization.
C5_InitializedForever ==
  /\ (installed = NULL /\ rpc = "idle" /\ mr_slot # None) => is_initialized = {"False"}
  /\ installed # NULL => is_initialized = {"True"}

\* C6: no allocator is destroyed while the native default slot designates it,
\* while the application holds a reference to it, while an allocation made
\* through it is outstanding, or while a live adaptor has it as upstream; so
\* replacing the default destroys nothing that is still in use.
C6_ReplacedAllocatorSurvives ==
  /\ natDefault # NULL => natDefault \in natLive
  /\ \A w \in userRefs : c_obj(w) # NULL => c_obj(w) \in natLive
  /\ \A x \in outstanding : x \in natLive
  /\ \A x \in natLive : obj[x].up # NULL => obj[x].up \in natLive

\* After a replacement, an allocator that is neither the default nor referenced
\* by the application any more is alive with its allocation outstanding.
C6_Witness ==
  /\ installs = 2
  /\ rpc = "idle"
  /\ \E x \in outstanding : /\ x # natDefault
                            /\ x \notin {c_obj(w) : w \in userRefs}
                            /\ x \in natLive

-----------------------------------------------------------------------------
(* Claims about the construction of logging adaptors *)

\* C9: on every path that constructs a logging adaptor the destination is the
\* explicit log_file_name, or the value of RMM_LOG_FILE when the argument is
\* omitted; with both omitted (or the variable empty) the construction fails
\* and creates no adaptor.
C9_LogDestination ==
  (lastCtor.path # "none" /\ lastCtor.logging) =>
    IF lastCtor.explicit # "None"
    THEN lastCtor.result = "ok" /\ lastCtor.dest = lastCtor.explicit
    ELSE IF lastCtor.environ \notin {"None", ""}
    THEN lastCtor.result = "ok" /\ lastCtor.dest = lastCtor.environ
    ELSE lastCtor.result # "ok" /\ lastCtor.dest = ""

-----------------------------------------------------------------------------
(* Claims about equality *)

NonOverriding == {x \in Res : res[x].cls = "resource"}
Adaptors == {x \in Res : res[x].cls = "pmr_adaptor"}
Loggers == {x \in Res : res[x].cls = "logging"}

\* C7: for an allocator that does not override equality, a.is_equal(b) is true
\* exactly when a and b are the same instance; among such allocators is_equal
\* is reflexive and symmetric.
C7_IdentityEquality ==
  /\ (cmp.op = "is_equal" /\ cmp.a \in NonOverriding) =>
       (cmp.result <=> cmp.a = cmp.b)
  /\ \A a \in NonOverriding : is_equal(res, a, a)
  /\ \A a, b \in NonOverriding : is_equal(res, a, b) <=> is_equal(res, b, a)

\* Two distinct allocators that do not override equality were compared and
\* found unequal.
C7_Witness ==
  /\ cmp.op = "is_equal"
  /\ cmp.a \in NonOverriding
  /\ cmp.b \in NonOverriding
  /\ cmp.a # cmp.b
  /\ ~cmp.result

\* C8: a pmr_adaptor compares equal to another pmr_adaptor whenever the
\* allocators the two wrap are the same instance or compare equal through
\* is_equal, and never compares equal to a resource that is not a pmr_adaptor;
\* two logging adaptors over equal upstreams are equal to each other.
C8_AdaptorEquality ==
  /\ (cmp.op = "pmr_do_is_equal" /\ cmp.b \in Adaptors
      /\ (res[cmp.a].wraps = res[cmp.b].wraps
          \/ is_equal(res, res[cmp.a].wraps, res[cmp.b].wraps)
          \/ is_equal(res, res[cmp.b].wraps, res[cmp.a].wraps)))
       => cmp.result
  /\ (cmp.op = "pmr_do_is_equal" /\ cmp.b \notin Adaptors) => ~cmp.result
  /\ (cmp.op = "is_equal" /\ cmp.a \in Loggers /\ cmp.b \in Loggers
      /\ is_equal(res, res[cmp.a].wraps, res[cmp.b].wraps))
       => cmp.result

\* Two pmr_adaptors over two distinct logging adaptors that share an upstream
\* were compared and found equal.
C8_Witness ==
  /\ cmp.op = "pmr_do_is_equal"
  /\ cmp.a # cmp.b
  /\ cmp.b \in Adaptors
  /\ res[cmp.a].wraps # res[cmp.b].wraps
  /\ res[cmp.a].wraps \in Loggers
  /\ cmp.result

-----------------------------------------------------------------------------
(* Claims about the binning dispatcher *)

\* The bins the caller had added that can hold the request served last.
Qualifying == {m \in {served.among[i] : i \in 1 .. Len(served.among)} : m >= served.bytes}

\* C10: with bins added in strictly increasing max_size order, allocate(bytes)
\* is served by the smallest bin the caller added whose max_size >= bytes, and
\* by the upstream allocator when no bin qualifies; with the bins 256, 4096 and
\* 1<<20, 200 bytes go to the 256 bin, 5000 bytes to the 1<<20 bin and 2MB to
\* upstream.
C10_FirstFittingBin ==
  /\ \A i \in 1 .. Len(added) - 1 : added[i] < added[i + 1]
  /\ served.by # "none" =>
       IF Qualifying = {}
       THEN served.by = "upstream"
       ELSE /\ served.by = "bin"
            /\ served.max_size \in Qualifying
            /\ \A m \in Qualifying : served.max_size <= m
  /\ served.among = <<256, 4096, 1048576>> =>
       /\ served.bytes = 200 => (served.by = "bin" /\ served.max_size = 256)
       /\ served.bytes = 5000 => (served.by = "bin" /\ served.max_size = 1048576)
       /\ served.bytes = 2097152 => served.by = "upstream"

\* With the bins 256, 4096 and 1<<20, a request of 5000 bytes was served by
\* the 1<<20 bin.
C10_Witness ==
  /\ served = [bytes |-> 5000, by |-> "bin", max_size |-> 1048576,
               among |-> <<256, 4096, 1048576>>]

-----------------------------------------------------------------------------
(* Claims about the pool suballocator *)

WholeSegments == {[addr |-> g.addr, size |-> g.size] : g \in segs}

-----------------------------------------------------------------------------
(* Claims about the fixed-size block pool *)

\* C12: with blocks_to_preallocate = K (by default 128 blocks of 1MiB), each
\* of the first K allocate calls with no deallocate in between is served from
\* the free-list without an upstream request; the (K+1)th makes exactly one
\* upstream request, for K blocks, which are added when upstream grants it;
\* deallocate puts the block on the free-list and never contacts upstream.
C12_PreallocatedThenOneSlab ==
  LET K == fcall.blocks_to_preallocate
  IN /\ (flast.op = "allocate" /\ fcount >= 1 /\ fcount <= K) =>
          /\ flast.result = "ok"
          /\ flast.upstream = 0
          /\ fslabs = 1
          /\ ffree = K - fcount
     /\ (flast.op = "allocate" /\ fcount = K + 1) =>
          /\ flast.upstream = 1
          /\ flast.requested = K
          /\ flast.result = "ok" => (fslabs = 2 /\ ffree + fissued = 2 * K)
          /\ flast.result # "ok" => (fslabs = 1 /\ ffree = 0)
     /\ flast.op = "deallocate" =>
          /\ flast.upstream = 0
          /\ ffree >= 1
          /\ ffree + fissued = fslabs * fargs.blocks_to_preallocate

\* The pool was built with the default arguments and its 129th allocate call
\* in a row was served from a second slab.
C12_Witness ==
  /\ fcall.blocks_to_preallocate = DefaultBlocksToPreallocate
  /\ fcall.block_size = DefaultBlockSize
  /\ flast.op = "allocate"
  /\ flast.result = "ok"
  /\ fcount = DefaultBlocksToPreallocate + 1
  /\ fslabs = 2

-----------------------------------------------------------------------------
(* Claims about failed installations *)

\* C13: after every completed call of _initialize or _set_default_resource,
\* whether it returned or raised, the binding's _mr designates the allocator
\* the native registry designates; a call that raised left both designating
\* what was installed before it.
C13_BindingMatchesNative ==
  (rpc = "idle" /\ rresult \notin {"none", "running"}) =>
    /\ c_obj(mr_slot) = get_default
    /\ rresult # "ok" => (c_obj(mr_slot) = installed /\ get_default = installed)

====
